---- MODULE Spec2Model ----
(***************************************************************************)
(* A model of the AMQP broker of spectacles.js                             *)
(* (src/packages/brokers/src/index.ts, class Amqp) and of RatelimitMutex   *)
(* (src/unnamed/part_000).                                                 *)
(*                                                                         *)
(* Every await of the source is a position of a process; one action is the *)
(* code that runs between two awaits.  The AMQP server, the listeners and  *)
(* the caller are the environment.                                         *)
(***************************************************************************)
EXTENDS Integers, Sequences, FiniteSets, TLC

(***************************************************************************)
(* Bounds of the model.                                                    *)
(***************************************************************************)
\* connect() invocations (by the caller or by a reconnect timer)
MaxConnects == 2
\* the largest reconnectTimeout an options object carries (milliseconds)
MaxDelay == 2
\* the tasks of subscribe and createQueue started (one per event of a call)
MaxTasks == 2
\* the tasks of unsubscribe started
MaxCancels == 2
\* messages published
MaxMsgs == 2
\* call() invocations
MaxCalls == 2
\* the calls of getTimeout in one claim
MaxPolls == 4
\* the deliveries the server makes to the consumers of event queues
MaxDispatches == 2

(***************************************************************************)
(* JavaScript values.                                                      *)
(***************************************************************************)
\* the value undefined where a string is expected
UNDEF == "<undefined>"
\* the value undefined where a number is expected
NUNDEF == -1
\* NaN, as a number no delay or window is
NAN == -2

Procs == 1..MaxConnects

\* the errors a connection attempt fails with or a connection closes with:
\* one amqplib's isFatalError holds of and one it does not
Errors == {"fatal", "nonfatal"}

\* the event names the caller uses
Events == {"a", "b"}

\* An argument of the constructor: typeof arg is "undefined", "string" or
\* "object" (an AmqpOptions object, of which reconnectTimeout is modelled).
UndefArg == [type |-> "undefined", str |-> UNDEF, reconnectTimeout |-> NUNDEF]
StrArg(s) == [type |-> "string", str |-> s, reconnectTimeout |-> NUNDEF]
ObjArg(rt) == [type |-> "object", str |-> UNDEF, reconnectTimeout |-> rt]

\* JavaScript truthiness of a string or undefined
Truthy(s) == s # UNDEF /\ s # ""

(***************************************************************************)
(* The constructor: Amqp(group = 'default', subgroup?, options?).          *)
(***************************************************************************)
ConstructorGroup(g) == IF g.type = "undefined" THEN "default" ELSE g.str

ConstructorSubgroup(s) == IF s.type = "object" THEN UNDEF ELSE s.str

ConstructorOptions(s, o) ==
    IF s.type = "object" THEN s.reconnectTimeout
    ELSE IF o.type = "undefined" THEN NUNDEF ELSE o.reconnectTimeout

(***************************************************************************)
(* Timers.  setTimeout(f, d) of Node: a delay that is not a number >= 1    *)
(* (undefined among them) is 1 millisecond.                                *)
(***************************************************************************)
NoTimer == [set |-> FALSE, delay |-> 0, waited |-> 0]

TimeoutDelay(d) == IF d = NUNDEF \/ d < 1 THEN 1 ELSE d

SetTimeout(d) == [set |-> TRUE, delay |-> TimeoutDelay(d), waited |-> 0]

TimerDue(t) == t.set /\ t.waited >= t.delay

Elapse(t) == IF t.set /\ t.waited < t.delay
             THEN [t EXCEPT !.waited = t.waited + 1] ELSE t

VARIABLES
    group,        \* this.group
    subgroup,     \* this.subgroup (UNDEF when not set)
    options,      \* this.options.reconnectTimeout (NUNDEF when not given)
    channel,      \* this.channel: 0 (undefined) or the channel of process i
    callback,     \* this.callback: 0 (undefined) or the reply queue of channel i
    consumers,    \* this._consumers: event -> consumer tag (0: no entry)
    started,      \* the number of connect() invocations so far
    cpc,          \* the position of each connect() invocation
    carg,         \* typeof urlOrConn of each invocation: "url" or "conn"
    conn,         \* the connection of each invocation: none, open, or the
                  \* error it closed with
    handlers,     \* whether connect() attached its handlers to the connection
    opch,         \* the channel the pending assertExchange was issued on
    rtimer,       \* the retry timer of each invocation (line 120)
    ctimer,       \* the reconnect timer of each connection (line 127)
    wire,         \* per channel, the frames sent and not yet served, in order
    chanErr,      \* the channels the server closed with a channel error
    replyCons,    \* server: the consumers of reply queues, [ch, queue]
    exchanges,    \* server: the exchanges asserted
    queues,       \* server: the event queues asserted
    bindings,     \* server: the bindings [queue, exchange, key]
    chanCons,     \* server: the consumers of event queues, [ch, tag, queue, event]
    qmsgs,        \* server: the messages of each event queue, oldest first
    unacked,      \* server: the deliveries not yet settled, oldest first
    ntags,        \* the number of consumer tags the server has generated
    tasks,        \* the subscribe, unsubscribe and createQueue tasks started
    npub,         \* the number of messages published
    dispatched,   \* the calls of _handleMessage so far, in order
    ncalls,       \* the number of correlation ids ulid() has generated
    pending,      \* the correlation table: the ids with a waiting call
    calls,        \* the promise of each call: its state and what settled it
    aborted,      \* the calls whose cancellation signal the caller triggered
    xtimer,       \* the timer of the timeout window of each call
    mpc,          \* RatelimitMutex.claim: the position of its executor
    msignal,      \* the signal claim was given: null, live or aborted
    mlistener,    \* whether claim's abort listener is attached to the signal
    mpromise,     \* the promise claim returned
    mtimeout,     \* the local timeout of claim
    mtimer,       \* the timer of pause(timeout)
    mpolls,       \* the number of calls of getTimeout so far
    emitted,      \* what the last step emitted on the broker
    sent,         \* the channel operations the last step issued
    ret,          \* what the last step returned or threw to its caller
    called        \* the operations the caller invoked in the last step

ctorVars == <<group, subgroup, options>>
connVars == <<channel, callback, started, cpc, carg, conn, handlers, opch,
              rtimer, ctimer, replyCons, exchanges>>
subVars == <<consumers, queues, bindings, chanCons, qmsgs, unacked, ntags,
             tasks, npub, dispatched>>
rpcVars == <<ncalls, pending, calls, aborted, xtimer>>
mutexVars == <<mpc, msignal, mlistener, mpromise, mtimeout, mtimer, mpolls>>
obsVars == <<emitted, sent, ret, called>>
vars == <<ctorVars, connVars, wire, chanErr, subVars, rpcVars, mutexVars,
          obsVars>>

Emit(name, arg) == [ev |-> name, arg |-> arg]
Op(name, ch, a, b) == [op |-> name, ch |-> ch, a |-> a, b |-> b]

NoRet == <<>>
Returned(op, of, val) == [op |-> op, of |-> of, val |-> val, threw |-> FALSE]
Threw(op, of, err) == [op |-> op, of |-> of, val |-> err, threw |-> TRUE]
Called(op, of) == [op |-> op, of |-> of]
CalledWith(op, of, arg) == [op |-> op, of |-> of, arg |-> arg]
\* the error of the _channel accessor, line 234
NoChannelError == "Error: no available amqp channel"
\* amqplib's error for an operation on a closed channel
ChannelClosedError == "IllegalOperationError: Channel closed"

Silent == emitted' = <<>> /\ sent' = <<>> /\ ret' = NoRet /\ called' = <<>>

\* the name the server gives the exclusive reply queue declared on channel i
ReplyQueue(i) == i

\* a channel is usable while its connection is open and no channel error
\* has closed it
ChannelOpen(ch) == ch \in Procs /\ conn[ch] = "open" /\ ch \notin chanErr

\* A frame on a channel.  amqplib sends a channel's frames in order and the
\* server serves them in order.
Frame(kind, id, key) ==
    [kind |-> kind, id |-> id, key |-> key, replyTo |-> 0, correlationId |-> 0]

\* a published message that carries the properties of a call
CallFrame(key, replyTo, correlation) ==
    [kind |-> "publish", id |-> 0, key |-> key, replyTo |-> replyTo,
     correlationId |-> correlation]

AtHead(ch, kind, id) ==
    /\ ChannelOpen(ch)
    /\ wire[ch] # <<>>
    /\ Head(wire[ch]).kind = kind
    /\ Head(wire[ch]).id = id

\* the wire after one more frame is sent on channel ch; a closed channel
\* takes no frame
Send(w, ch, f) == IF ChannelOpen(ch) THEN [w EXCEPT ![ch] = Append(@, f)] ELSE w

Served(ch) == [wire EXCEPT ![ch] = Tail(@)]

RECURSIVE SendFrames(_, _, _)
SendFrames(w, ch, fs) ==
    IF fs = <<>> THEN w ELSE SendFrames(Send(w, ch, Head(fs)), ch, Tail(fs))

\* The server keeps every message it has delivered to a consumer of an
\* event queue (consume without noAck, line 183) until the delivery is
\* settled.  A delivery that is requeued, or not settled when its channel
\* closes, goes back to the front of its queue.
Unsettled(ch) == SelectSeq(unacked, LAMBDA u : u.ch = ch)

Messages(ds) == [k \in 1..Len(ds) |-> ds[k].msg]

Requeued(qm, ds) ==
    [q \in DOMAIN qm |->
        Messages(SelectSeq(ds, LAMBDA u : u.queue = q)) \o qm[q]]

\* the server's queues and deliveries once channel ch is closed
ChannelClosed(ch) ==
    /\ qmsgs' = Requeued(qmsgs, Unsettled(ch))
    /\ unacked' = SelectSeq(unacked, LAMBDA u : u.ch # ch)

PendingReconnects == {i \in Procs : ctimer[i].set}

\* Line 165: the tasks of subscribe whose createQueue has returned the queue
\* and whose continuation of `await this.createQueue(event)` is queued.  Node
\* runs the queued continuations before it runs the callback of a timer or
\* reads a socket again.
Queued == {t \in DOMAIN tasks : tasks[t].pc = "createQueue"}

\* Line 117: the invocations of connect() whose amqp.connect has resolved
\* and whose continuation of `await amqp.connect(...)` is queued
Resolved == {i \in Procs : cpc[i] = "connected"}

\* the callback of a timer runs when no continuation is queued
TimerTurn == Queued = {} /\ Resolved = {}

\* what the socket of connection i brings is handled in the turn that queued
\* the continuations: they all come from what that socket brought
SameTurn(i) ==
    /\ \A t \in Queued : tasks[t].ch = i
    /\ \A j \in Resolved : j = i

\* the bound on connect() invocations, counting the reconnects already scheduled
MayStartConnect == started + Cardinality(PendingReconnects) < MaxConnects

(***************************************************************************)
(* connect(urlOrConn), lines 111-146.                                      *)
(***************************************************************************)
\* lines 112-117: the synchronous start of an invocation
StartConnect(i, kind) ==
    /\ started' = i
    /\ carg' = [carg EXCEPT ![i] = kind]
    /\ IF kind = "conn"
       THEN /\ conn' = [conn EXCEPT ![i] = "open"]
            /\ cpc' = [cpc EXCEPT ![i] = "createChannel"]
       ELSE /\ conn' = conn
            /\ cpc' = [cpc EXCEPT ![i] = "connecting"]

\* The caller owns one connection at a time (spec section 5): it calls
\* connect() when no connection is open, none is being set up and no
\* reconnect is scheduled.
Disconnected ==
    \A i \in Procs :
        /\ conn[i] # "open"
        /\ cpc[i] \in {"idle", "done", "rejected"}
        /\ ~ctimer[i].set

Connect(kind) ==
    /\ Disconnected
    /\ MayStartConnect
    /\ StartConnect(started + 1, kind)
    /\ Silent
    /\ UNCHANGED <<ctorVars, mutexVars, channel, callback, handlers, opch, rtimer, ctimer,
                   replyCons, exchanges, wire, chanErr, subVars, rpcVars>>

\* lines 118-121: amqp.connect rejected with e
ConnectFail(i, e) ==
    /\ SameTurn(i)
    /\ cpc[i] = "connecting"
    /\ emitted' = <<Emit("close", e)>>
    /\ rtimer' = [rtimer EXCEPT ![i] = SetTimeout(options)]
    /\ cpc' = [cpc EXCEPT ![i] = "retryWait"]
    /\ sent' = <<>> /\ ret' = NoRet
    /\ called' = <<>>
    /\ UNCHANGED <<ctorVars, mutexVars, channel, callback, started, carg, conn, handlers,
                   opch, ctimer, replyCons, exchanges, wire, chanErr, subVars, rpcVars>>

\* a retry that does not wait for its delay
RetryFireEarly(i) ==
    /\ TimerTurn
    /\ cpc[i] = "retryWait"
    /\ rtimer' = [rtimer EXCEPT ![i] = NoTimer]
    /\ cpc' = [cpc EXCEPT ![i] = "connecting"]
    /\ Silent
    /\ UNCHANGED <<ctorVars, mutexVars, channel, callback, started, carg, conn, handlers,
                   opch, ctimer, replyCons, exchanges, wire, chanErr, subVars, rpcVars>>

\* line 120 resolves, line 121 continues the loop into line 117
RetryFire(i) ==
    /\ TimerTurn
    /\ cpc[i] = "retryWait"
    /\ TimerDue(rtimer[i])
    /\ rtimer' = [rtimer EXCEPT ![i] = NoTimer]
    /\ cpc' = [cpc EXCEPT ![i] = "connecting"]
    /\ Silent
    /\ UNCHANGED <<ctorVars, mutexVars, channel, callback, started, carg, conn, handlers,
                   opch, ctimer, replyCons, exchanges, wire, chanErr, subVars, rpcVars>>

\* line 117: amqp.connect resolved with an open connection; the
\* continuation of the await is queued and no handler is attached yet
ConnectOk(i) ==
    /\ SameTurn(i)
    /\ cpc[i] = "connecting"
    /\ conn' = [conn EXCEPT ![i] = "open"]
    /\ cpc' = [cpc EXCEPT ![i] = "connected"]
    /\ Silent
    /\ UNCHANGED <<ctorVars, mutexVars, channel, callback, started, carg, handlers,
                   opch, rtimer, ctimer, replyCons, exchanges, wire, chanErr,
                   subVars, rpcVars>>

\* lines 117, 124-136: the continuation of `await amqp.connect(...)` runs;
\* the close and error handlers are attached to the connection, open or
\* closed in the meantime, the loop is left and createChannel is called
AttachHandlers(i) ==
    /\ cpc[i] = "connected"
    /\ handlers' = [handlers EXCEPT ![i] = TRUE]
    /\ cpc' = [cpc EXCEPT ![i] = "createChannel"]
    /\ Silent
    /\ UNCHANGED <<ctorVars, mutexVars, channel, callback, started, carg, conn,
                   opch, rtimer, ctimer, replyCons, exchanges, wire, chanErr,
                   subVars, rpcVars>>

\* lines 136-139: createChannel resolved; this.channel is assigned and the
\* reply queue is declared on it
CreateChannelOk(i) ==
    /\ SameTurn(i)
    /\ cpc[i] = "createChannel"
    /\ conn[i] = "open"
    /\ channel' = i
    /\ cpc' = [cpc EXCEPT ![i] = "assertQueue"]
    /\ wire' = Send(wire, i, Frame("connect", i, ""))
    /\ sent' = <<Op("assertQueue", i, "", "exclusive")>>
    /\ emitted' = <<>> /\ ret' = NoRet
    /\ called' = <<>>
    /\ UNCHANGED <<ctorVars, mutexVars, callback, started, carg, conn, handlers, opch,
                   rtimer, ctimer, replyCons, exchanges, chanErr, subVars, rpcVars>>

\* lines 139-144: assertQueue resolved; this.callback is assigned, the reply
\* consumer is registered on this.channel (not awaited) and the exchange is
\* asserted on this.channel
AssertQueueOk(i) ==
    /\ SameTurn(i)
    /\ cpc[i] = "assertQueue"
    /\ AtHead(i, "connect", i)
    /\ callback' = ReplyQueue(i)
    /\ opch' = [opch EXCEPT ![i] = channel]
    /\ cpc' = [cpc EXCEPT ![i] = "assertExchange"]
    /\ wire' = LET w == Send(Served(i), channel, Frame("replyConsume", i, ""))
               IN  Send(w, channel, Frame("connect", i, ""))
    /\ sent' = <<Op("consume", channel, ReplyQueue(i), "noAck"),
                 Op("assertExchange", channel, group, "direct")>>
    /\ emitted' = <<>> /\ ret' = NoRet
    /\ called' = <<>>
    /\ UNCHANGED <<ctorVars, mutexVars, channel, started, carg, conn, handlers, rtimer,
                   ctimer, replyCons, exchanges, chanErr, subVars, rpcVars>>

\* lines 140-142: the server registers the consumer of the reply queue.  The
\* queue is exclusive to the connection that declared it.
ServeReplyConsume(ch) ==
    /\ ChannelOpen(ch)
    /\ wire[ch] # <<>>
    /\ Head(wire[ch]).kind = "replyConsume"
    /\ LET q == ReplyQueue(Head(wire[ch]).id)
       IN  IF q = ReplyQueue(ch)
           THEN /\ replyCons' = replyCons \cup {[ch |-> ch, queue |-> q]}
                /\ wire' = Served(ch)
                /\ UNCHANGED <<chanErr, chanCons, qmsgs, unacked>>
           ELSE /\ replyCons' = {c \in replyCons : c.ch # ch}
                /\ wire' = [wire EXCEPT ![ch] = <<>>]
                /\ chanErr' = chanErr \cup {ch}
                /\ chanCons' = {c \in chanCons : c.ch # ch}
                /\ ChannelClosed(ch)
    /\ Silent
    /\ UNCHANGED <<ctorVars, mutexVars, channel, callback, started, cpc, carg, conn,
                   handlers, opch, rtimer, ctimer, exchanges, consumers,
                   queues, bindings, ntags, tasks, npub, dispatched, rpcVars>>

\* lines 144-145: assertExchange resolved; connect() returns the connection
AssertExchangeOk(i) ==
    /\ SameTurn(opch[i])
    /\ cpc[i] = "assertExchange"
    /\ AtHead(opch[i], "connect", i)
    /\ exchanges' = exchanges \cup {group}
    /\ cpc' = [cpc EXCEPT ![i] = "done"]
    /\ wire' = Served(opch[i])
    /\ Silent
    /\ UNCHANGED <<ctorVars, mutexVars, channel, callback, started, carg, conn, handlers,
                   opch, rtimer, ctimer, replyCons, chanErr, subVars, rpcVars>>

\* lines 136, 139, 144: the awaited operation rejects because the connection
\* or the channel it runs on has closed; connect() rejects
SetupFail(i) ==
    /\ SameTurn(i)
    /\ \/ cpc[i] = "createChannel" /\ conn[i] \in Errors
       \/ cpc[i] = "assertQueue" /\ ~ChannelOpen(i)
       \/ cpc[i] = "assertExchange" /\ ~ChannelOpen(opch[i])
    /\ cpc' = [cpc EXCEPT ![i] = "rejected"]
    /\ Silent
    /\ UNCHANGED <<ctorVars, mutexVars, channel, callback, started, carg, conn, handlers,
                   opch, rtimer, ctimer, replyCons, exchanges, wire, chanErr,
                   subVars, rpcVars>>

(***************************************************************************)
(* The connection's handlers, lines 124-133.                               *)
(***************************************************************************)
\* a test that takes no error for fatal
isNeverFatal(err) == FALSE

\* amqplib's isFatalError(err)
isFatalError(err) == err = "fatal"

\* lines 124-129: the handler of the connection's close event
CloseHandler(i, err) ==
    IF handlers[i] /\ ~isFatalError(err)
    THEN /\ emitted' = <<Emit("close", err)>>
         /\ ctimer' = [ctimer EXCEPT ![i] = SetTimeout(options)]
    ELSE /\ emitted' = <<>>
         /\ ctimer' = ctimer

\* the connection of invocation i closes with err: its channel, the frames
\* on it and the consumers on it are gone, and the server requeues what it
\* had delivered on it and was not settled
ConnClose(i, err) ==
    /\ SameTurn(i)
    /\ conn[i] = "open"
    /\ handlers[i] /\ ~isFatalError(err) => MayStartConnect
    /\ conn' = [conn EXCEPT ![i] = err]
    /\ wire' = [wire EXCEPT ![i] = <<>>]
    /\ replyCons' = {c \in replyCons : c.ch # i}
    /\ chanCons' = {c \in chanCons : c.ch # i}
    /\ ChannelClosed(i)
    /\ CloseHandler(i, err)
    /\ sent' = <<>> /\ ret' = NoRet
    /\ called' = <<>>
    /\ UNCHANGED <<ctorVars, mutexVars, channel, callback, started, cpc, carg, handlers,
                   opch, rtimer, exchanges, chanErr, consumers, queues,
                   bindings, ntags, tasks, npub, dispatched, rpcVars>>

\* lines 131-133: the handler of the connection's error event
ConnError(i, err) ==
    /\ SameTurn(i)
    /\ conn[i] = "open"
    /\ emitted' = IF handlers[i] THEN <<Emit("error", err)>> ELSE <<>>
    /\ sent' = <<>> /\ ret' = NoRet
    /\ called' = <<>>
    /\ UNCHANGED <<ctorVars, mutexVars, connVars, wire, chanErr, subVars, rpcVars>>

\* line 127: the reconnect timer fires and calls this.connect(urlOrConn)
ReconnectFire(i) ==
    /\ TimerTurn
    /\ TimerDue(ctimer[i])
    /\ ctimer' = [ctimer EXCEPT ![i] = NoTimer]
    /\ StartConnect(started + 1, carg[i])
    /\ Silent
    /\ UNCHANGED <<ctorVars, mutexVars, channel, callback, handlers, opch, rtimer,
                   replyCons, exchanges, wire, chanErr, subVars, rpcVars>>

\* a millisecond passes
Tick ==
    /\ \/ \E i \in Procs : \/ rtimer[i].set /\ ~TimerDue(rtimer[i])
                           \/ ctimer[i].set /\ ~TimerDue(ctimer[i])
       \/ \E c \in DOMAIN xtimer : xtimer[c].set /\ ~TimerDue(xtimer[c])
       \/ mtimer.set /\ ~TimerDue(mtimer)
    /\ rtimer' = [i \in Procs |-> Elapse(rtimer[i])]
    /\ ctimer' = [i \in Procs |-> Elapse(ctimer[i])]
    /\ xtimer' = [c \in DOMAIN xtimer |-> Elapse(xtimer[c])]
    /\ mtimer' = Elapse(mtimer)
    /\ Silent
    /\ UNCHANGED <<ctorVars, mpc, msignal, mlistener, mpromise, mtimeout,
                   mpolls, channel, callback, started, cpc, carg, conn,
                   handlers, opch, replyCons, exchanges, wire, chanErr, subVars,
                   ncalls, pending, calls, aborted>>

\* a queue name that leaves the subgroup out
QueueNameNoSubgroup(g, sg, e) == g \o ":" \o e

(***************************************************************************)
(* createQueue, _subscribe and _unsubscribe, lines 148-205.  Every event   *)
(* of a call is a task of its own (events.map(async ...)) and the caller   *)
(* gets the Promise.all of the tasks of its call.                          *)
(***************************************************************************)
\* line 149: the name of the queue of an event
QueueName(g, sg, e) == g \o ":" \o ((IF Truthy(sg) THEN sg \o ":" ELSE "") \o e)

\* line 151: the routing key the queue of an event is bound with
BindKey(e) == e

\* a consumer that dispatches under the first event name it is given
DispatchFirstEvent(e) == "a"

\* lines 168, 172: the event a consumer registered for `event` dispatches as
DispatchEvent(e) == e

\* one task of events.map(async event => ...), or the body of a direct
\* call of createQueue: first and n name the tasks of the call it belongs to
Task(kind, e, pc, ch, q, tag, val, first, n) ==
    [kind |-> kind, event |-> e, pc |-> pc, ch |-> ch, queue |-> q,
     tag |-> tag, val |-> val, first |-> first, n |-> n]

TaskIds == 1..Len(tasks)

\* a task of a call that has settled: nothing of it is referenced any more
Finished(kind) == Task(kind, "", "settled", 0, "", 0, "", 0, 0)

\* the tasks started so far by unsubscribe (TRUE) or by subscribe and
\* createQueue (FALSE)
Started(cancels) ==
    Cardinality({t \in TaskIds : (tasks[t].kind = "unsubscribe") = cancels})

Settled(t) == t.pc \in {"done", "rejected", "settled"}

\* the tasks of the call that task t of ts belongs to
CallTasks(ts, t) == ts[t].first..(ts[t].first + ts[t].n - 1)

\* the events of that call, in the order given
CallEvents(ts, t) == [k \in 1..ts[t].n |-> ts[ts[t].first + k - 1].event]

\* what its tasks resolved with, in the order of the events
CallValues(ts, t) == [k \in 1..ts[t].n |-> ts[ts[t].first + k - 1].val]

\* lines 164, 196: Promise.all of the tasks of the call of task t, none of
\* which had rejected before this step: it rejects with the first rejection
\* and resolves, with the array of all results, once every task has
\* resolved.  Line 152: createQueue returns the queue itself.
PromiseAll(ts, t) ==
    LET rejected == {u \in CallTasks(ts, t) : ts[u].pc = "rejected"}
        first == CHOOSE u \in rejected : \A v \in rejected : u <= v
    IN  IF ts[t].kind = "createQueue"
        THEN CASE ts[t].pc = "done" ->
                     <<Returned("createQueue", ts[t].event, ts[t].val)>>
               [] ts[t].pc = "rejected" ->
                     <<Threw("createQueue", ts[t].event, ts[t].val)>>
               [] OTHER -> <<>>
        ELSE IF rejected # {}
        THEN <<Threw(ts[t].kind, CallEvents(ts, t), ts[first].val)>>
        ELSE IF \A u \in CallTasks(ts, t) : ts[u].pc = "done"
        THEN <<Returned(ts[t].kind, CallEvents(ts, t), CallValues(ts, t))>>
        ELSE <<>>

\* what the caller of the call of task t gets in the step that takes the
\* tasks from old to ts: nothing if the call had rejected before
Results(old, ts, t) ==
    IF \E u \in CallTasks(ts, t) \cap DOMAIN old : old[u].pc = "rejected"
    THEN <<>>
    ELSE PromiseAll(ts, t)

\* the tasks of a call all of whose tasks have settled are forgotten
Settle(ts) ==
    [u \in DOMAIN ts |->
        IF ts[u].pc # "settled"
           /\ \A v \in CallTasks(ts, u) : Settled(ts[v])
        THEN Finished(ts[u].kind) ELSE ts[u]]

\* lines 164-165, 149-150: a task of subscribe or createQueue starts; the
\* _channel accessor throws when there is no channel, else assertQueue is
\* called on the channel
NewQueueTask(kind, e, first, n) ==
    IF channel = 0
    THEN Task(kind, e, "rejected", 0, QueueName(group, subgroup, e), 0,
              NoChannelError, first, n)
    ELSE Task(kind, e, "assertQueue", channel, QueueName(group, subgroup, e),
              0, "", first, n)

\* an unsubscribe that cancels whether or not a consumer is recorded
NewCancelTaskAlways(e, first, n) ==
    Task("unsubscribe", e, "cancel", channel, "", consumers[e], "", first, n)

\* lines 196-203: a task of unsubscribe starts; with no recorded consumer it
\* returns false, else cancel is called on the channel
NewCancelTask(e, first, n) ==
    IF consumers[e] # 0
    THEN Task("unsubscribe", e, "cancel", channel, "", consumers[e], "",
              first, n)
    ELSE Task("unsubscribe", e, "done", 0, "", 0, "false", first, n)

NewTask(kind, e, first, n) ==
    IF kind = "unsubscribe" THEN NewCancelTask(e, first, n)
    ELSE NewQueueTask(kind, e, first, n)

\* the channel operation a starting task calls, if any
FirstOp(t) ==
    CASE t.pc = "assertQueue" -> <<Op("assertQueue", t.ch, t.queue, "")>>
      [] t.pc = "cancel" -> <<Op("cancel", t.ch, t.tag, "")>>
      [] OTHER -> <<>>

RECURSIVE SendAll(_, _, _)
SendAll(w, ts, first) ==
    IF ts = <<>> THEN w
    ELSE SendAll(IF Head(ts).pc \in {"assertQueue", "cancel"}
                 THEN Send(w, Head(ts).ch, Frame("task", first, ""))
                 ELSE w,
                 Tail(ts), first + 1)

RECURSIVE FirstOps(_)
FirstOps(ts) == IF ts = <<>> THEN <<>> ELSE FirstOp(Head(ts)) \o FirstOps(Tail(ts))

\* subscribe(events), unsubscribe(events) or createQueue(event) is called,
\* whether or not earlier calls are still pending: every event's task runs
\* up to its first await
StartTasks(kind, evs) ==
    /\ IF kind = "unsubscribe"
       THEN Started(TRUE) + Len(evs) <= MaxCancels
       ELSE Started(FALSE) + Len(evs) <= MaxTasks
    /\ LET first == Len(tasks) + 1
           new == [k \in 1..Len(evs) |-> NewTask(kind, evs[k], first, Len(evs))]
       IN  /\ tasks' = Settle(tasks \o new)
           /\ wire' = SendAll(wire, new, first)
           /\ sent' = FirstOps(new)
           /\ ret' = Results(tasks, tasks \o new, first)
    /\ called' = [k \in 1..Len(evs) |-> Called(kind, evs[k])]
    /\ emitted' = <<>>
    /\ UNCHANGED <<ctorVars, mutexVars, connVars, chanErr, consumers, queues, bindings,
                   chanCons, qmsgs, unacked, ntags, npub, dispatched, rpcVars>>

Subscribe(evs) == StartTasks("subscribe", evs)

Unsubscribe(evs) == StartTasks("unsubscribe", evs)

CreateQueue(e) == StartTasks("createQueue", <<e>>)

\* lines 150-151: assertQueue resolved; bindQueue is called on this.channel
TaskAssertOk(t) ==
    /\ SameTurn(tasks[t].ch)
    /\ tasks[t].pc = "assertQueue"
    /\ AtHead(tasks[t].ch, "task", t)
    /\ queues' = queues \cup {tasks[t].queue}
    /\ qmsgs' = IF tasks[t].queue \in DOMAIN qmsgs THEN qmsgs
                ELSE qmsgs @@ (tasks[t].queue :> <<>>)
    /\ tasks' = [tasks EXCEPT ![t].pc = "bindQueue", ![t].ch = channel]
    /\ wire' = Send(Served(tasks[t].ch), channel, Frame("task", t, ""))
    /\ sent' = <<Op("bindQueue", channel, tasks[t].queue,
                    <<group, BindKey(tasks[t].event)>>)>>
    /\ emitted' = <<>> /\ ret' = NoRet
    /\ called' = <<>>
    /\ UNCHANGED <<ctorVars, mutexVars, connVars, chanErr, consumers, bindings, chanCons,
                   unacked, ntags, npub, dispatched, rpcVars>>

\* lines 151-152: bindQueue resolved and createQueue returns the queue, to
\* its caller or to the task of subscribe that awaits it (line 165), whose
\* continuation is queued behind the continuations already waiting
TaskBindOk(t) ==
    /\ SameTurn(tasks[t].ch)
    /\ tasks[t].pc = "bindQueue"
    /\ AtHead(tasks[t].ch, "task", t)
    /\ group \in exchanges
    /\ bindings' = bindings \cup
          {[queue |-> tasks[t].queue, exchange |-> group,
            key |-> BindKey(tasks[t].event)]}
    /\ IF tasks[t].kind = "createQueue"
       THEN /\ LET ts == [tasks EXCEPT ![t].pc = "done",
                                            ![t].val = tasks[t].queue]
                IN  /\ tasks' = Settle(ts)
                    /\ ret' = Results(tasks, ts, t)
            /\ wire' = Served(tasks[t].ch)
            /\ sent' = <<>>
       ELSE /\ tasks' = [tasks EXCEPT ![t].pc = "createQueue"]
            /\ ret' = NoRet
            /\ wire' = Served(tasks[t].ch)
            /\ sent' = <<>>
    /\ emitted' = <<>>
    /\ called' = <<>>
    /\ UNCHANGED <<ctorVars, mutexVars, connVars, chanErr, consumers, queues, chanCons,
                   qmsgs, unacked, ntags, npub, dispatched, rpcVars>>

\* lines 165-168: the continuation of `await this.createQueue(event)` runs;
\* consume is called on this.channel
TaskCreateQueueOk(t) ==
    /\ tasks[t].pc = "createQueue"
    /\ tasks' = [tasks EXCEPT ![t].pc = "consume", ![t].ch = channel]
    /\ wire' = Send(wire, channel, Frame("task", t, ""))
    /\ sent' = <<Op("consume", channel, tasks[t].queue, "")>>
    /\ emitted' = <<>> /\ ret' = NoRet
    /\ called' = <<>>
    /\ UNCHANGED <<ctorVars, mutexVars, connVars, chanErr, consumers, queues,
                   bindings, chanCons, qmsgs, unacked, ntags, npub, dispatched,
                   rpcVars>>

\* lines 168, 185-186: consume resolved with a consumer tag of the server's;
\* the tag is recorded for the event and the task returns the consumer
TaskConsumeOk(t) ==
    /\ SameTurn(tasks[t].ch)
    /\ tasks[t].pc = "consume"
    /\ AtHead(tasks[t].ch, "task", t)
    /\ ntags' = ntags + 1
    /\ chanCons' = chanCons \cup
          {[ch |-> tasks[t].ch, tag |-> ntags + 1, queue |-> tasks[t].queue,
            event |-> DispatchEvent(tasks[t].event)]}
    /\ consumers' = [consumers EXCEPT ![tasks[t].event] = ntags + 1]
    /\ LET ts == [tasks EXCEPT ![t].pc = "done", ![t].val = "consumer"]
       IN  /\ tasks' = Settle(ts)
           /\ ret' = Results(tasks, ts, t)
    /\ wire' = Served(tasks[t].ch)
    /\ emitted' = <<>> /\ sent' = <<>>
    /\ called' = <<>>
    /\ UNCHANGED <<ctorVars, mutexVars, connVars, chanErr, queues, bindings, qmsgs, unacked, npub,
                   dispatched, rpcVars>>

\* lines 198-200: cancel resolved; the entry of the event is deleted
TaskCancelOk(t) ==
    /\ SameTurn(tasks[t].ch)
    /\ tasks[t].pc = "cancel"
    /\ AtHead(tasks[t].ch, "task", t)
    /\ chanCons' = {c \in chanCons :
                       ~(c.ch = tasks[t].ch /\ c.tag = tasks[t].tag)}
    /\ consumers' = [consumers EXCEPT ![tasks[t].event] = 0]
    /\ LET ts == [tasks EXCEPT ![t].pc = "done", ![t].val = "true"]
       IN  /\ tasks' = Settle(ts)
           /\ ret' = Results(tasks, ts, t)
    /\ wire' = Served(tasks[t].ch)
    /\ emitted' = <<>> /\ sent' = <<>>
    /\ called' = <<>>
    /\ UNCHANGED <<ctorVars, mutexVars, connVars, chanErr, queues, bindings, qmsgs, unacked, ntags,
                   npub, dispatched, rpcVars>>

\* the awaited channel operation of a task rejects: its channel is closed
TaskFail(t) ==
    /\ SameTurn(tasks[t].ch)
    /\ tasks[t].pc \in {"assertQueue", "bindQueue", "consume", "cancel"}
    /\ ~ChannelOpen(tasks[t].ch)
    /\ LET ts == [tasks EXCEPT ![t].pc = "rejected",
                                ![t].val = ChannelClosedError]
       IN  /\ tasks' = Settle(ts)
           /\ ret' = Results(tasks, ts, t)
    /\ emitted' = <<>> /\ sent' = <<>>
    /\ called' = <<>>
    /\ UNCHANGED <<ctorVars, mutexVars, connVars, wire, chanErr, consumers, queues,
                   bindings, chanCons, qmsgs, unacked, ntags, npub, dispatched, rpcVars>>

(***************************************************************************)
(* publish, lines 213-215, and the delivery of messages, lines 168-183.    *)
(***************************************************************************)
\* line 214: the _channel accessor throws when there is no channel; amqplib
\* throws on a closed channel; else the message is sent to the exchange
Publish(e) ==
    /\ npub < MaxMsgs
    /\ IF channel = 0
       THEN /\ ret' = <<Threw("publish", e, NoChannelError)>>
            /\ sent' = <<>>
            /\ UNCHANGED <<wire, npub>>
       ELSE /\ sent' = <<Op("publish", channel, <<group, e>>, npub + 1)>>
            /\ IF ChannelOpen(channel)
               THEN /\ ret' = NoRet
                    /\ wire' = Send(wire, channel, Frame("publish", npub + 1, e))
                    /\ npub' = npub + 1
               ELSE /\ ret' = <<Threw("publish", e, ChannelClosedError)>>
                    /\ UNCHANGED <<wire, npub>>
    /\ called' = <<Called("publish", e)>>
    /\ emitted' = <<>>
    /\ UNCHANGED <<ctorVars, mutexVars, connVars, chanErr, consumers, queues, bindings,
                   chanCons, qmsgs, unacked, tasks, ntags, dispatched, rpcVars>>

\* the queues a message published to exchange x with routing key k goes to
Routes(x, k) == {b.queue : b \in {c \in bindings : c.exchange = x /\ c.key = k}}

\* the server routes a published message; publishing to an exchange that
\* does not exist closes the channel
ServePublish(ch) ==
    /\ ChannelOpen(ch)
    /\ wire[ch] # <<>>
    /\ Head(wire[ch]).kind = "publish"
    /\ LET f == Head(wire[ch])
           m == [id |-> f.id, key |-> f.key, replyTo |-> f.replyTo,
                 correlationId |-> f.correlationId]
       IN  IF group \in exchanges
           THEN /\ qmsgs' = [q \in DOMAIN qmsgs |->
                               IF q \in Routes(group, f.key)
                               THEN Append(qmsgs[q], m) ELSE qmsgs[q]]
                /\ wire' = Served(ch)
                /\ UNCHANGED <<chanErr, chanCons, replyCons, unacked>>
           ELSE /\ chanErr' = chanErr \cup {ch}
                /\ wire' = [wire EXCEPT ![ch] = <<>>]
                /\ chanCons' = {c \in chanCons : c.ch # ch}
                /\ replyCons' = {c \in replyCons : c.ch # ch}
                /\ ChannelClosed(ch)
    /\ Silent
    /\ UNCHANGED <<ctorVars, mutexVars, channel, callback, started, cpc, carg, conn,
                   handlers, opch, rtimer, ctimer, exchanges, consumers,
                   queues, bindings, ntags, tasks, npub, dispatched, rpcVars>>

\* What a listener does with the affordances it is handed: a call of reply,
\* ack, nack(allUpTo, requeue) or reject(requeue).
ReplyCall == [f |-> "reply", allUpTo |-> FALSE, requeue |-> FALSE]
AckCall == [f |-> "ack", allUpTo |-> FALSE, requeue |-> FALSE]
NackCall(allUpTo, requeue) ==
    [f |-> "nack", allUpTo |-> allUpTo, requeue |-> requeue]
RejectCall(requeue) == [f |-> "reject", allUpTo |-> FALSE, requeue |-> requeue]

ListenerCalls ==
    {ReplyCall, AckCall} \cup {RejectCall(r) : r \in BOOLEAN} \cup
    {NackCall(a, r) : a, r \in BOOLEAN}

\* a listener calls at most one affordance before it returns or throws
ListenerActs == {<<>>} \cup {<<a>> : a \in ListenerCalls}

\* the arguments of a nack or reject as the operation records them
Requeue(allUpTo, requeue) ==
    (IF allUpTo THEN "allUpTo:" ELSE "") \o
    (IF requeue THEN "requeue" ELSE "norequeue")

\* lines 173-176: the channel operation of an affordance, on this.channel
Affordance(m, a) ==
    CASE a.f = "reply" ->
            Op("sendToQueue", channel, m.replyTo, m.correlationId)
      [] a.f = "ack" -> Op("ack", channel, m.id, "")
      [] a.f = "nack" ->
            Op("nack", channel, m.id, Requeue(a.allUpTo, a.requeue))
      [] a.f = "reject" -> Op("reject", channel, m.id, Requeue(FALSE, a.requeue))

\* the frame of an affordance for the delivery with delivery tag d
AffordanceFrame(m, d, a) ==
    CASE a.f = "reply" ->
            [kind |-> "sendToQueue", id |-> 0, key |-> "",
             replyTo |-> m.replyTo, correlationId |-> m.correlationId]
      [] a.f = "ack" -> Frame("settle", d, "ack")
      [] OTHER -> Frame("settle", d, Requeue(a.allUpTo, a.requeue))

\* line 179: the message whose dispatch threw is rejected without requeue
RejectThrown(m) == <<Op("reject", channel, m, "norequeue")>>

\* lines 168-183: the server delivers the oldest message of a queue to one
\* of its consumers; the callback hands it to _handleMessage with the
\* affordances; the listener calls the affordances of acts and returns or
\* throws.  An affordance on a closed channel throws in the listener, and
\* so does line 179, before line 180 is reached.
Deliver(c, acts, outcome) ==
    /\ SameTurn(c.ch)
    /\ c \in chanCons
    /\ ChannelOpen(c.ch)
    /\ qmsgs[c.queue] # <<>>
    /\ Len(dispatched) < MaxDispatches
    /\ LET m == Head(qmsgs[c.queue])
           d == Len(dispatched) + 1
           thrown == outcome = "throw" \/ (acts # <<>> /\ ~ChannelOpen(channel))
       IN  /\ qmsgs' = [qmsgs EXCEPT ![c.queue] = Tail(@)]
           /\ unacked' = Append(unacked,
                 [ch |-> c.ch, tag |-> d, queue |-> c.queue, msg |-> m])
           /\ dispatched' = Append(dispatched,
                 [event |-> c.event, msg |-> m.id, key |-> m.key,
                  ch |-> c.ch, outcome |-> IF thrown THEN "throw" ELSE "ok"])
           /\ sent' = [k \in 1..Len(acts) |-> Affordance(m, acts[k])] \o
                      (IF thrown THEN RejectThrown(m.id) ELSE <<>>)
           /\ wire' = SendFrames(wire, channel,
                 [k \in 1..Len(acts) |-> AffordanceFrame(m, d, acts[k])] \o
                 (IF thrown THEN <<Frame("settle", d, Requeue(FALSE, FALSE))>>
                  ELSE <<>>))
           /\ emitted' = IF thrown /\ ChannelOpen(channel)
                         THEN <<Emit("error", "thrown")>> ELSE <<>>
    /\ ret' = NoRet
    /\ called' = <<>>
    /\ UNCHANGED <<ctorVars, mutexVars, connVars, chanErr, consumers, queues,
                   bindings, chanCons, ntags, tasks, npub, rpcVars>>

\* the server settles a delivery the client acknowledged or rejected: the
\* delivery, or with allUpTo every delivery of the channel up to it, is
\* dropped or requeued; a delivery tag the channel does not know closes the
\* channel
ServeSettle(ch) ==
    /\ ChannelOpen(ch)
    /\ wire[ch] # <<>>
    /\ Head(wire[ch]).kind = "settle"
    /\ LET f == Head(wire[ch])
           known == {k \in 1..Len(unacked) :
                        unacked[k].ch = ch /\ unacked[k].tag = f.id}
           upTo == f.key \in {Requeue(TRUE, r) : r \in BOOLEAN}
           again == f.key \in {Requeue(a, TRUE) : a \in BOOLEAN}
           hit == {unacked[k] : k \in
                      {j \in 1..Len(unacked) :
                          /\ unacked[j].ch = ch
                          /\ IF upTo THEN \E k \in known : j <= k
                             ELSE j \in known}}
       IN  IF known # {}
           THEN /\ unacked' = SelectSeq(unacked, LAMBDA u : u \notin hit)
                /\ qmsgs' = IF again
                            THEN Requeued(qmsgs,
                                    SelectSeq(unacked, LAMBDA u : u \in hit))
                            ELSE qmsgs
                /\ wire' = Served(ch)
                /\ UNCHANGED <<chanErr, chanCons, replyCons>>
           ELSE /\ chanErr' = chanErr \cup {ch}
                /\ wire' = [wire EXCEPT ![ch] = <<>>]
                /\ chanCons' = {c \in chanCons : c.ch # ch}
                /\ replyCons' = {c \in replyCons : c.ch # ch}
                /\ ChannelClosed(ch)
    /\ Silent
    /\ UNCHANGED <<ctorVars, mutexVars, channel, callback, started, cpc, carg, conn,
                   handlers, opch, rtimer, ctimer, exchanges, consumers,
                   queues, bindings, ntags, tasks, npub, dispatched, rpcVars>>

\* line 170: the server cancels a consumer; the callback is called with null
\* and does nothing
DeliverNull(c) ==
    /\ SameTurn(c.ch)
    /\ c \in chanCons
    /\ ChannelOpen(c.ch)
    /\ chanCons' = chanCons \ {c}
    /\ Silent
    /\ UNCHANGED <<ctorVars, mutexVars, connVars, wire, chanErr, consumers, queues,
                   bindings, qmsgs, unacked, ntags, tasks, npub, dispatched, rpcVars>>

(***************************************************************************)
(* call, lines 217-225, and the consumer of the reply queue, lines         *)
(* 140-142.  _awaitResponse and _handleReply are the base class's.         *)
(***************************************************************************)
CallIds == 1..MaxCalls

NoCall == [state |-> "none", by |-> 0]

\* the correlation ids a message on the reply queue may carry: undefined
\* (0), the id of a call, or an id no call has (MaxCalls + 1)
ReplyIds == 0..(MaxCalls + 1)

\* line 218: ulid() gives an id no earlier call has
Ulid == ncalls + 1

\* a publish that never throws
PublishNeverThrows == ""

\* what the _channel accessor (line 234) or amqplib's publish throws, or ""
PublishThrows ==
    IF channel = 0 THEN NoChannelError
    ELSE IF ~ChannelOpen(channel) THEN ChannelClosedError
    ELSE ""

\* The publish option expiration of a call: left out, a number, or a
\* string, a sequence of characters.
NoExpiration == [type |-> "undefined", num |-> NUNDEF, str |-> <<>>]
NumExpiration(n) == [type |-> "number", num |-> n, str |-> <<>>]
StrExpiration(cs) == [type |-> "string", num |-> NUNDEF, str |-> cs]

Digits == {"0", "1", "2", "3", "4", "5", "6", "7", "8", "9"}

DigitValue(c) ==
    CASE c = "0" -> 0 [] c = "1" -> 1 [] c = "2" -> 2 [] c = "3" -> 3
      [] c = "4" -> 4 [] c = "5" -> 5 [] c = "6" -> 6 [] c = "7" -> 7
      [] c = "8" -> 8 [] c = "9" -> 9

\* the value of the digits a string starts with, after the value acc
RECURSIVE LeadingDigits(_, _)
LeadingDigits(cs, acc) ==
    IF cs = <<>> \/ Head(cs) \notin Digits THEN acc
    ELSE LeadingDigits(Tail(cs), 10 * acc + DigitValue(Head(cs)))

\* parseInt(cs, 10) of a string without sign or leading blanks: the
\* digits it starts with, NaN if it starts with none
ParseInt10(cs) ==
    IF cs = <<>> \/ Head(cs) \notin Digits THEN NAN ELSE LeadingDigits(cs, 0)

\* a timeout window that is the length of the string
CallExpirationLength(x) ==
    IF x.type = "string" THEN Len(x.str) + 1 ELSE x.num

\* line 224: the expiration handed to _awaitResponse
CallExpiration(x) ==
    IF x.type = "string" THEN ParseInt10(x.str) ELSE x.num

TimeoutError == "Error: callback exceeded time limit"

\* _awaitResponse(correlation, expiration): an entry for the id waits for
\* its reply, for the window of the expiration if there is one
AwaitResponse(correlation, expiration) ==
    /\ pending' = pending \cup {correlation}
    /\ calls' = [calls EXCEPT ![correlation] = [state |-> "pending", by |-> 0]]
    /\ xtimer' = [xtimer EXCEPT ![correlation] =
                     IF expiration = NUNDEF THEN NoTimer
                     ELSE SetTimeout(expiration)]

\* lines 217-225: publish throws and call() with it, or the request is
\* published with replyTo and correlationId and the response is awaited
Call(method, x) ==
    /\ ncalls < MaxCalls
    /\ IF PublishThrows # ""
       THEN /\ ret' = <<Threw("call", method, PublishThrows)>>
            /\ sent' = IF channel = 0 THEN <<>>
                       ELSE <<Op("publish", channel, <<group, method>>,
                                 <<callback, Ulid>>)>>
            /\ UNCHANGED <<wire, ncalls, pending, calls, xtimer>>
       ELSE /\ ret' = NoRet
            /\ sent' = <<Op("publish", channel, <<group, method>>,
                            <<callback, Ulid>>)>>
            /\ wire' = Send(wire, channel, CallFrame(method, callback, Ulid))
            /\ ncalls' = Ulid
            /\ AwaitResponse(Ulid, CallExpiration(x))
    /\ called' = <<CalledWith("call", method, x)>>
    /\ emitted' = <<>>
    /\ UNCHANGED <<ctorVars, mutexVars, connVars, chanErr, subVars, aborted>>

\* a reply consumer that hands over the id of the oldest outstanding call
ReplyCorrelationOldest(msg) ==
    IF pending = {} THEN msg.correlationId
    ELSE CHOOSE c \in pending : \A d \in pending : c <= d

\* line 141: the correlation id the reply consumer hands to _handleReply
ReplyCorrelation(msg) == msg.correlationId

\* _handleReply(correlation, content): the entry of the id, if there is
\* one, is resolved and removed and its timer cleared; else the reply is
\* dropped
HandleReply(correlation, content) ==
    IF correlation \in pending
    THEN /\ pending' = pending \ {correlation}
         /\ calls' = [calls EXCEPT ![correlation] =
                         [state |-> "resolved", by |-> content]]
         /\ xtimer' = [xtimer EXCEPT ![correlation] = NoTimer]
    ELSE UNCHANGED <<pending, calls, xtimer>>

\* lines 140-142: a message arrives on the reply queue of channel ch; its
\* content is named after the correlation id it was sent with
ReplyArrives(ch, id) ==
    /\ SameTurn(ch)
    /\ ChannelOpen(ch)
    /\ [ch |-> ch, queue |-> ReplyQueue(ch)] \in replyCons
    /\ LET msg == [correlationId |-> id, content |-> id]
       IN  HandleReply(ReplyCorrelation(msg), msg.content)
    /\ called' = <<Called("reply", id)>>
    /\ emitted' = <<>> /\ sent' = <<>> /\ ret' = NoRet
    /\ UNCHANGED <<ctorVars, mutexVars, connVars, wire, chanErr, subVars, ncalls, aborted>>

\* line 173: the server routes the message of a reply affordance to the
\* queue its replyTo names; if that is a reply queue with a consumer, the
\* consumer of lines 140-142 gets it, else the message is dropped
ServeSendToQueue(ch) ==
    /\ ChannelOpen(ch)
    /\ wire[ch] # <<>>
    /\ Head(wire[ch]).kind = "sendToQueue"
    /\ wire' = Served(ch)
    /\ LET f == Head(wire[ch])
           msg == [correlationId |-> f.correlationId,
                   content |-> f.correlationId]
       IN  IF \E rc \in replyCons : rc.queue = f.replyTo /\ ChannelOpen(rc.ch)
           THEN /\ HandleReply(ReplyCorrelation(msg), msg.content)
                /\ called' = <<Called("reply", f.correlationId)>>
           ELSE /\ UNCHANGED <<pending, calls, xtimer>>
                /\ called' = <<>>
    /\ emitted' = <<>> /\ sent' = <<>> /\ ret' = NoRet
    /\ UNCHANGED <<ctorVars, mutexVars, connVars, chanErr, subVars, ncalls, aborted>>

\* the timer of _awaitResponse fires: the call is rejected with the timeout
\* error and its entry is removed
CallTimeout(c) ==
    /\ TimerTurn
    /\ c \in pending
    /\ TimerDue(xtimer[c])
    /\ pending' = pending \ {c}
    /\ calls' = [calls EXCEPT ![c] = [state |-> "timeout", by |-> 0]]
    /\ xtimer' = [xtimer EXCEPT ![c] = NoTimer]
    /\ ret' = <<Threw("call", c, TimeoutError)>>
    /\ emitted' = <<>> /\ sent' = <<>>
    /\ called' = <<>>
    /\ UNCHANGED <<ctorVars, mutexVars, connVars, wire, chanErr, subVars, ncalls, aborted>>

\* the caller triggers the cancellation signal it holds for call c; call()
\* takes no signal (line 217) and no code listens to it
Abort(c) ==
    /\ calls[c].state = "pending"
    /\ c \notin aborted
    /\ aborted' = aborted \cup {c}
    /\ Silent
    /\ UNCHANGED <<ctorVars, mutexVars, connVars, wire, chanErr, subVars, ncalls, pending,
                   calls, xtimer>>

(***************************************************************************)
(* RatelimitMutex.claim(route, signal), part_000 lines 13-34.              *)
(***************************************************************************)
Route == "r"

CancelledError == "Error: Request cancelled"

\* the signals claim may be given: none, one not aborted, one aborted
Signals == {"null", "live", "aborted"}

\* the timeouts getTimeout may resolve with
Timeouts == (0 - 1)..MaxDelay

\* reject(e) of the promise: a settled promise stays as it is
Reject(p, e) == IF p = "pending" THEN e ELSE p

\* resolve() of the promise
Resolve(p) == IF p = "pending" THEN "resolved" ELSE p

\* a loop that goes on for timeouts above one
LoopContinuesAboveOne(t) == t > 1 /\ msignal # "aborted"

\* line 21: the condition of the loop
LoopContinues(t) == t > 0 /\ msignal # "aborted"

\* lines 14-20: claim is called; the listener is added to a signal, and
\* getTimeout is called
Claim(sig) ==
    /\ mpc = "idle"
    /\ msignal' = sig
    /\ mlistener' = (sig # "null")
    /\ mpc' = "getTimeout"
    /\ mpolls' = 1
    /\ called' = <<Called("claim", Route)>>
    /\ emitted' = <<>> /\ sent' = <<>> /\ ret' = NoRet
    /\ UNCHANGED <<ctorVars, connVars, wire, chanErr, subVars, rpcVars,
                   mpromise, mtimeout, mtimer>>

\* lines 20-23, 26-32: getTimeout resolves with t; the loop pauses for t,
\* or it is left, the listener removed and the promise resolved
GetTimeoutReturns(t) ==
    /\ mpc = "getTimeout"
    /\ t > 0 => mpolls < MaxPolls
    /\ mtimeout' = t
    /\ IF LoopContinues(t)
       THEN /\ mpc' = "pause"
            /\ mtimer' = SetTimeout(t)
            /\ UNCHANGED <<mlistener, mpromise>>
       ELSE /\ mpc' = "done"
            /\ mlistener' = FALSE
            /\ mpromise' = Resolve(mpromise)
            /\ mtimer' = mtimer
    /\ ret' = <<Returned("getTimeout", Route, t)>>
    /\ emitted' = <<>> /\ sent' = <<>>
    /\ called' = <<>>
    /\ UNCHANGED <<ctorVars, connVars, wire, chanErr, subVars, rpcVars,
                   msignal, mpolls>>

\* lines 25-28: getTimeout rejects; the promise is rejected with its error
\* and the executor returns
GetTimeoutThrows ==
    /\ mpc = "getTimeout"
    /\ mpc' = "done"
    /\ mpromise' = Reject(mpromise, "failed")
    /\ Silent
    /\ UNCHANGED <<ctorVars, connVars, wire, chanErr, subVars, rpcVars,
                   msignal, mlistener, mtimeout, mtimer, mpolls>>

\* lines 22-23: pause(timeout) resolves and getTimeout is called again
PauseDone ==
    /\ mpc = "pause"
    /\ TimerDue(mtimer)
    /\ mtimer' = NoTimer
    /\ mpc' = "getTimeout"
    /\ mpolls' = mpolls + 1
    /\ Silent
    /\ UNCHANGED <<ctorVars, connVars, wire, chanErr, subVars, rpcVars,
                   msignal, mlistener, mpromise, mtimeout>>

\* line 15: the signal is aborted; a listener that is attached rejects the
\* promise
AbortSignal ==
    /\ mpc # "idle"
    /\ msignal = "live"
    /\ msignal' = "aborted"
    /\ mpromise' = IF mlistener THEN Reject(mpromise, "cancelled") ELSE mpromise
    /\ Silent
    /\ UNCHANGED <<ctorVars, connVars, wire, chanErr, subVars, rpcVars,
                   mpc, mlistener, mtimeout, mtimer, mpolls>>

(***************************************************************************)
(* The state after construction.                                           *)
(***************************************************************************)
RtArgs == {NUNDEF} \cup (0..MaxDelay)
GroupArgs == {UndefArg, StrArg("g")}
SubgroupArgs == {UndefArg, StrArg(""), StrArg("sg")} \cup
                {ObjArg(rt) : rt \in RtArgs}
OptionsArgs == {UndefArg} \cup {ObjArg(rt) : rt \in RtArgs}

Constructed(g, s, o) ==
    /\ group = ConstructorGroup(g)
    /\ subgroup = ConstructorSubgroup(s)
    /\ options = ConstructorOptions(s, o)
    /\ consumers = [e \in Events |-> 0]

InitRest ==
    /\ channel = 0
    /\ callback = 0
    /\ started = 0
    /\ cpc = [i \in Procs |-> "idle"]
    /\ carg = [i \in Procs |-> "url"]
    /\ conn = [i \in Procs |-> "none"]
    /\ handlers = [i \in Procs |-> FALSE]
    /\ opch = [i \in Procs |-> 0]
    /\ rtimer = [i \in Procs |-> NoTimer]
    /\ ctimer = [i \in Procs |-> NoTimer]
    /\ wire = [i \in Procs |-> <<>>]
    /\ chanErr = {}
    /\ replyCons = {}
    /\ exchanges = {}
    /\ queues = {}
    /\ bindings = {}
    /\ chanCons = {}
    /\ qmsgs = <<>>
    /\ unacked = <<>>
    /\ ntags = 0
    /\ tasks = <<>>
    /\ npub = 0
    /\ dispatched = <<>>
    /\ ncalls = 0
    /\ pending = {}
    /\ calls = [c \in CallIds |-> NoCall]
    /\ aborted = {}
    /\ xtimer = [c \in CallIds |-> NoTimer]
    /\ mpc = "idle"
    /\ msignal = "null"
    /\ mlistener = FALSE
    /\ mpromise = "pending"
    /\ mtimeout = 0
    /\ mtimer = NoTimer
    /\ mpolls = 0
    /\ emitted = <<>>
    /\ sent = <<>>
    /\ ret = NoRet
    /\ called = <<>>

NextConn ==
    \/ \E kind \in {"url", "conn"} : Connect(kind)
    \/ \E i \in Procs, e \in Errors : ConnectFail(i, e)
    \/ \E i \in Procs : RetryFire(i)
    \/ \E i \in Procs : ConnectOk(i)
    \/ \E i \in Procs : AttachHandlers(i)
    \/ \E i \in Procs : CreateChannelOk(i)
    \/ \E i \in Procs : AssertQueueOk(i)
    \/ \E i \in Procs : ServeReplyConsume(i)
    \/ \E i \in Procs : AssertExchangeOk(i)
    \/ \E i \in Procs : SetupFail(i)
    \/ \E i \in Procs, e \in Errors : ConnClose(i, e)
    \/ \E i \in Procs, e \in Errors : ConnError(i, e)
    \/ \E i \in Procs : ReconnectFire(i)
    \/ Tick

Init ==
    /\ \E g \in GroupArgs, s \in SubgroupArgs, o \in OptionsArgs :
            Constructed(g, s, o)
    /\ InitRest

Spec == Init /\ [][NextConn]_vars

EventLists == {<<e>> : e \in Events} \cup {<<e, f>> : e \in Events, f \in Events}

\* connect(url) up to its return
ConnSetup ==
    \/ Connect("url")
    \/ \E i \in Procs : ConnectOk(i)
    \/ \E i \in Procs : AttachHandlers(i)
    \/ \E i \in Procs : CreateChannelOk(i)
    \/ \E i \in Procs : AssertQueueOk(i)
    \/ \E i \in Procs : ServeReplyConsume(i)
    \/ \E i \in Procs : AssertExchangeOk(i)
    \/ \E i \in Procs : SetupFail(i)

\* the tasks of subscribe, unsubscribe and createQueue
TaskSteps ==
    \/ \E t \in TaskIds : TaskAssertOk(t)
    \/ \E t \in TaskIds : TaskBindOk(t)
    \/ \E t \in TaskIds : TaskCreateQueueOk(t)
    \/ \E t \in TaskIds : TaskConsumeOk(t)
    \/ \E t \in TaskIds : TaskCancelOk(t)
    \/ \E t \in TaskIds : TaskFail(t)

(***************************************************************************)
(* SubSpec: subscriptions over a connection that is set up, closes and is  *)
(* set up again by the reconnect timer.                                    *)
(***************************************************************************)
NextSub ==
    \/ ConnSetup
    \/ \E i \in Procs : ConnClose(i, "nonfatal")
    \/ \E i \in Procs : ReconnectFire(i)
    \/ Tick
    \/ \E evs \in EventLists : Subscribe(evs)
    \/ \E evs \in EventLists : Unsubscribe(evs)
    \/ TaskSteps
    \/ \E c \in chanCons : DeliverNull(c)

InitSub ==
    /\ Constructed(StrArg("g"), StrArg("sg"), UndefArg)
    /\ InitRest

SubSpec == InitSub /\ [][NextSub]_vars

(***************************************************************************)
(* MsgSpec: messages published to the exchange and delivered to the        *)
(* consumers, over a connection that is set up and may close for good.     *)
(***************************************************************************)
NextMsg ==
    \/ ConnSetup
    \/ \E i \in Procs : ConnClose(i, "fatal")
    \/ \E evs \in EventLists : Subscribe(evs)
    \/ \E t \in TaskIds : TaskAssertOk(t)
    \/ \E t \in TaskIds : TaskBindOk(t)
    \/ \E t \in TaskIds : TaskCreateQueueOk(t)
    \/ \E t \in TaskIds : TaskConsumeOk(t)
    \/ \E t \in TaskIds : TaskFail(t)
    \/ \E e \in Events : Publish(e)
    \/ \E ch \in Procs : ServePublish(ch)
    \/ \E c \in chanCons, acts \in ListenerActs, o \in {"ok", "throw"} :
          Deliver(c, acts, o)
    \/ \E ch \in Procs : ServeSettle(ch)
    \/ \E ch \in Procs : ServeSendToQueue(ch)

MsgSpec == InitSub /\ [][NextMsg]_vars

(***************************************************************************)
(* QueueSpec: createQueue for every construction of the broker.            *)
(***************************************************************************)
NextQueue ==
    \/ ConnSetup
    \/ \E i \in Procs : ConnClose(i, "fatal")
    \/ \E e \in Events : CreateQueue(e)
    \/ \E t \in TaskIds : TaskAssertOk(t)
    \/ \E t \in TaskIds : TaskBindOk(t)
    \/ \E t \in TaskIds : TaskFail(t)

InitQueue ==
    /\ \E g \in GroupArgs, s \in SubgroupArgs :
            Constructed(g, s, UndefArg)
    /\ InitRest

QueueSpec == InitQueue /\ [][NextQueue]_vars

(***************************************************************************)
(* RpcSpec: calls and the messages of the reply queue, over a connection   *)
(* that is set up, closes and is set up again by the reconnect timer.      *)
(***************************************************************************)
Methods == {"a"}

NextRpc ==
    \/ ConnSetup
    \/ \E i \in Procs : ConnClose(i, "nonfatal")
    \/ \E i \in Procs : ReconnectFire(i)
    \/ Tick
    \/ \E m \in Methods : Call(m, NoExpiration)
    \/ \E ch \in Procs : ServePublish(ch)
    \/ \E ch \in Procs, id \in ReplyIds : ReplyArrives(ch, id)
    \/ \E c \in CallIds : Abort(c)

RpcSpec == InitSub /\ [][NextRpc]_vars

(***************************************************************************)
(* TimeoutSpec: calls with a timeout window over a connection that stays   *)
(* open.                                                                   *)
(***************************************************************************)
ExpirationArgs ==
    {NoExpiration} \cup {NumExpiration(n) : n \in 1..MaxDelay} \cup
    {StrExpiration(<<"0", "2">>), StrExpiration(<<"1", "x">>),
     StrExpiration(<<"x">>)}

NextTimeout ==
    \/ ConnSetup
    \/ Tick
    \/ \E m \in Methods, x \in ExpirationArgs : Call(m, x)
    \/ \E ch \in Procs : ServePublish(ch)
    \/ \E ch \in Procs, id \in CallIds : ReplyArrives(ch, id)
    \/ \E c \in CallIds : CallTimeout(c)

TimeoutSpec == InitSub /\ [][NextTimeout]_vars

(***************************************************************************)
(* MutexSpec: one claim of a RatelimitMutex whose getTimeout resolves with *)
(* a positive timeout fewer than MaxPolls times.  MutexFairSpec: the       *)
(* backend answers, the pause ends and time passes.                        *)
(***************************************************************************)
NextMutex ==
    \/ \E sig \in Signals : Claim(sig)
    \/ \E t \in Timeouts : GetTimeoutReturns(t)
    \/ GetTimeoutThrows
    \/ PauseDone
    \/ AbortSignal
    \/ Tick

MutexSpec == InitSub /\ [][NextMutex]_vars

MutexFairness ==
    /\ WF_vars(\E t \in Timeouts : GetTimeoutReturns(t))
    /\ WF_vars(PauseDone)
    /\ WF_vars(Tick)

MutexFairSpec == InitSub /\ [][NextMutex]_vars /\ MutexFairness

(***************************************************************************)
(* The claims.                                                             *)
(***************************************************************************)
Range(seq) == {seq[k] : k \in 1..Len(seq)}

\* C1 (as stated): no message is handed to the dispatch more than once.
C1_DispatchedExactlyOnce ==
    \A j, k \in 1..Len(dispatched) :
        j < k => dispatched[j].msg # dispatched[k].msg

\* C1 (amended): every delivery the transport makes from a queue is handed
\* to _handleMessage in the same step, exactly once and in the order of
\* delivery, under the event the message was published to (its routing
\* key), and nothing is dispatched that was not delivered; a message is
\* dispatched again only by being delivered again.
C1_EveryDeliveryDispatchedOnceUnderOwnEvent ==
    /\ [](\A k \in 1..Len(dispatched) :
             dispatched[k].key = dispatched[k].event)
    /\ [][/\ \A q \in DOMAIN qmsgs :
                Len(qmsgs'[q]) < Len(qmsgs[q]) =>
                   /\ Len(qmsgs'[q]) = Len(qmsgs[q]) - 1
                   /\ Len(dispatched') = Len(dispatched) + 1
                   /\ dispatched'[Len(dispatched')].msg = Head(qmsgs[q]).id
                   /\ dispatched'[Len(dispatched')].event = Head(qmsgs[q]).key
          /\ dispatched' # dispatched =>
                /\ Len(dispatched') = Len(dispatched) + 1
                /\ SubSeq(dispatched', 1, Len(dispatched)) = dispatched
                /\ Cardinality({q \in DOMAIN qmsgs :
                                   Len(qmsgs'[q]) < Len(qmsgs[q])}) = 1
                /\ Len(unacked') = Len(unacked) + 1]_vars

\* two messages of one event were delivered and dispatched in the order
\* published while another event is subscribed too
C1_Witness ==
    /\ Len(dispatched) = 2
    /\ dispatched[1].event = dispatched[2].event
    /\ dispatched[1].msg < dispatched[2].msg
    /\ \A e \in Events : consumers[e] # 0

\* C2: a call is only ever resolved by the reply that carries its own
\* correlation id; and in the step in which a message arrives on the reply
\* queue, if its correlation id is that of an outstanding call then exactly
\* that call is resolved and its entry removed, every other call and entry
\* staying as it was, and if it matches no outstanding entry then no call
\* and no entry changes.
C2_ReplyResolvesOnlyItsCall ==
    /\ [](\A c \in CallIds : calls[c].state = "resolved" => calls[c].by = c)
    /\ [][\A k \in 1..Len(called') :
             called'[k].op = "reply" =>
                LET x == called'[k].of
                IN  IF x \in pending
                    THEN /\ calls' = [calls EXCEPT
                                         ![x] = [state |-> "resolved", by |-> x]]
                         /\ pending' = pending \ {x}
                    ELSE calls' = calls /\ pending' = pending]_vars

\* two calls were outstanding and the reply of the later one arrived first
C2_Witness ==
    /\ calls[1].state = "pending"
    /\ calls[2].state = "resolved"
    /\ pending = {1}
    /\ called = <<Called("reply", 2)>>

\* C3: in the step in which a connection that connect() established from
\* a descriptor closes non-fatally, one close is emitted, carrying the
\* error, and the reconnect is scheduled.
C3_NonFatalCloseEmitsAndReconnects ==
    [][\A i \in Procs :
          (carg[i] = "url" /\ conn[i] = "open" /\ conn'[i] = "nonfatal") =>
             /\ emitted' = <<Emit("close", "nonfatal")>>
             /\ ctimer'[i].set]_vars

\* C4: in the step in which a connection attempt of connect(descriptor)
\* fails, whatever the error, exactly one close is emitted, carrying the
\* error, and the retry delay starts; the next attempt starts only when
\* the configured reconnectTimeout has passed; and the loop is left only
\* with an open connection.
C4_RetryLoop ==
    [][\A i \in Procs :
          /\ (cpc[i] = "connecting" /\ conn'[i] # "open") =>
                /\ cpc'[i] \in {"connecting", "retryWait"}
                /\ cpc'[i] = "retryWait" =>
                      /\ \E e \in Errors : emitted' = <<Emit("close", e)>>
                      /\ rtimer'[i].set /\ rtimer'[i].waited = 0
          /\ cpc[i] = "retryWait" =>
                /\ cpc'[i] \in {"retryWait", "connecting"}
                /\ cpc'[i] = "connecting" =>
                      /\ rtimer[i].set
                      /\ options # NUNDEF => rtimer[i].waited >= options
                      /\ emitted' = <<>>
          /\ (cpc[i] \in {"connecting", "retryWait"}
                 /\ cpc'[i] \notin {"connecting", "retryWait"}) =>
                /\ cpc[i] = "connecting"
                /\ cpc'[i] = "connected"
                /\ conn'[i] = "open"]_vars

\* an attempt failed and its retry is due after the configured delay of
\* MaxDelay
C4_Witness ==
    \E i \in Procs :
        /\ cpc[i] = "retryWait"
        /\ options = MaxDelay
        /\ TimerDue(rtimer[i])
        /\ rtimer[i].waited = MaxDelay

\* the name the specification gives the queue of an event
C5_Expected(e) ==
    IF subgroup = UNDEF \/ subgroup = ""
    THEN group \o ":" \o e
    ELSE group \o ":" \o subgroup \o ":" \o e

\* C5: whenever createQueue returns for an event, the value returned is
\* "{group}:{subgroup}:{event}" if a (non-empty) subgroup is set and
\* "{group}:{event}" otherwise, that queue has been asserted, and it is
\* bound to the exchange named group with the event as routing key; every
\* binding the broker made is of the queue of its routing key to the
\* exchange named group.
C5_QueueNameAndBinding ==
    /\ \A r \in Range(ret) :
          (r.op = "createQueue" /\ ~r.threw) =>
             /\ r.val = C5_Expected(r.of)
             /\ r.val \in queues
             /\ [queue |-> r.val, exchange |-> group, key |-> r.of] \in bindings
    /\ \A b \in bindings : b.exchange = group /\ b.queue = C5_Expected(b.key)

\* createQueue returned the name of a broker with a group and a subgroup
C5_Witness ==
    /\ ret = <<Returned("createQueue", "a", "g:sg:a")>>
    /\ group = "g"
    /\ subgroup = "sg"
    /\ [queue |-> "g:sg:a", exchange |-> "g", key |-> "a"] \in bindings

\* C6: at every moment the channel carries at most one active consumer per
\* event name.
C6_AtMostOneConsumerPerEvent ==
    \A e \in Events : Cardinality({c \in chanCons : c.event = e}) <= 1

\* the events of a call of unsubscribe, as the caller gave them
C7_Events(cs) == [k \in 1..Len(cs) |-> cs[k].of]

\* the cancels of the recorded consumers among the events evs, in order
RECURSIVE C7_Cancels(_)
C7_Cancels(evs) ==
    IF evs = <<>> THEN <<>>
    ELSE (IF consumers[Head(evs)] # 0
          THEN <<Op("cancel", channel, consumers[Head(evs)], "")>>
          ELSE <<>>) \o C7_Cancels(Tail(evs))

\* C7 (as stated): unsubscribe raises no error; in the step in which it is
\* called no consumer record changes and the cancels issued are exactly
\* those of the recorded tags of the requested events; and in the step in
\* which the cancel of an event settles, the event's record is forgotten,
\* the records of the other events are unchanged and the event resolves
\* with true.
C7_UnsubscribeFalseOrCancelForgetTrue ==
    [][/\ \A k \in 1..Len(ret') :
             ret'[k].op = "unsubscribe" => ~ret'[k].threw
       /\ (called' # <<>> /\ called'[1].op = "unsubscribe") =>
             /\ consumers' = consumers
             /\ sent' = C7_Cancels(C7_Events(called'))
       /\ \A t \in TaskIds :
             (tasks[t].pc = "cancel" /\ tasks'[t].pc # "cancel") =>
                /\ consumers'[tasks[t].event] = 0
                /\ \A x \in Events \ {tasks[t].event} :
                      consumers'[x] = consumers[x]
                /\ tasks'[t].pc \in {"done", "settled"}
                /\ tasks'[t].pc = "done" => tasks'[t].val = "true"]_vars

\* C7 (amended): in the step in which unsubscribe is called, no consumer
\* record changes, the cancels issued are exactly those of the recorded
\* tags of the requested events (none for an event without a record),
\* every requested event without a record has resolved with false, nothing
\* is thrown (also when there is no channel), and a call none of whose
\* events has a record returns false for each at once.  In the step in
\* which the cancel of an event resolves, the tag it cancelled is no
\* longer consumed on its channel, the event has no record, the records of
\* the other events are unchanged and the event resolves with true; in the
\* step in which the cancel fails, its channel being closed, no record
\* changes and the call throws.  Whenever unsubscribe returns, it returns
\* true for the events whose tag it cancelled and false for the others; it
\* throws only when a cancel fails, and then with the channel's error.
C7_UnsubscribeNotFoundOrCancel ==
    [][/\ (called' # <<>> /\ called'[1].op = "unsubscribe") =>
             LET evs == C7_Events(called')
                 first == Len(tasks) + 1
             IN  /\ consumers' = consumers
                 /\ sent' = C7_Cancels(evs)
                 /\ \A k \in 1..Len(evs) :
                       consumers[evs[k]] = 0 =>
                          \/ tasks'[first + k - 1].pc = "settled"
                          \/ /\ tasks'[first + k - 1].pc = "done"
                             /\ tasks'[first + k - 1].val = "false"
                 /\ IF \A k \in 1..Len(evs) : consumers[evs[k]] = 0
                    THEN ret' = <<Returned("unsubscribe", evs,
                                           [k \in 1..Len(evs) |-> "false"])>>
                    ELSE ret' = NoRet
       /\ \A t \in TaskIds :
             (tasks[t].pc = "cancel" /\ tasks'[t].pc # "cancel") =>
                LET e == tasks[t].event
                    first == tasks[t].first
                IN  /\ IF ChannelOpen(tasks[t].ch)
                       THEN /\ consumers'[e] = 0
                            /\ \A c \in chanCons' :
                                  ~(c.ch = tasks[t].ch /\ c.tag = tasks[t].tag)
                            /\ \A x \in Events \ {e} :
                                  consumers'[x] = consumers[x]
                            /\ tasks'[t].pc \in {"done", "settled"}
                            /\ tasks'[t].pc = "done" => tasks'[t].val = "true"
                            /\ \A k \in 1..Len(ret') : ~ret'[k].threw
                       ELSE /\ consumers' = consumers
                            /\ \A k \in 1..Len(ret') : ret'[k].threw
                    /\ \A k \in 1..Len(ret') :
                          (ret'[k].op = "unsubscribe" /\ ~ret'[k].threw) =>
                             /\ ret'[k].of = CallEvents(tasks, t)
                             /\ \A j \in 1..tasks[t].n :
                                   ret'[k].val[j] =
                                      IF tasks[first + j - 1].tag # 0
                                      THEN "true" ELSE "false"
       /\ \A k \in 1..Len(ret') :
             (ret'[k].op = "unsubscribe" /\ ret'[k].threw) =>
                \E t \in TaskIds :
                   /\ tasks[t].pc = "cancel"
                   /\ ~ChannelOpen(tasks[t].ch)
                   /\ ret'[k].val = ChannelClosedError]_vars

\* unsubscribe of an event with a recorded consumer and of one without
\* returned true and false
C7_Witness ==
    /\ ret = <<Returned("unsubscribe", <<"a", "b">>, <<"true", "false">>)>>
    /\ consumers["a"] = 0
    /\ consumers["b"] = 0
    /\ chanCons = {}

\* the rejections without requeue among the operations of the last step
C8_Rejections ==
    SelectSeq(sent, LAMBDA o : o.op = "reject" /\ o.b = "norequeue")

\* C8: when the dispatch of a delivered message has thrown (the error it
\* threw is emitted), that message is rejected without requeue exactly
\* once.
C8_ThrowRejectsOnce ==
    emitted = <<Emit("error", "thrown")>> =>
        /\ Len(C8_Rejections) = 1
        /\ C8_Rejections[1].a = dispatched[Len(dispatched)].msg

\* C9: while no connect() has completed, every publish, call, createQueue
\* and subscribe fails with the "no channel" error and issues no channel
\* operation.
C9_NoChannelUntilConnected ==
    (\A i \in Procs : cpc[i] # "done") =>
        /\ \A k \in 1..Len(called) :
              called[k].op \in {"publish", "call", "createQueue", "subscribe"}
                 => sent = <<>>
        /\ \A k \in 1..Len(called) :
              called[k].op \in {"publish", "call", "createQueue", "subscribe"}
                 => \E j \in 1..Len(ret) :
                        /\ ret[j].op = called[k].op
                        /\ ret[j].threw
                        /\ ret[j].val = NoChannelError

\* C10: once the caller has triggered the cancellation signal of a pending
\* call, that call is rejected as cancelled and its correlation entry is
\* removed.
C10_AbortCancelsCall ==
    \A c \in aborted : calls[c].state = "cancelled" /\ c \notin pending

\* the timeout window the specification gives a call with expiration x:
\* the number, or the base-10 integer the string reads as (NUNDEF: none)
C11_Window(x) ==
    CASE x.type = "number" -> x.num
      [] x = StrExpiration(<<"0", "2">>) -> 2
      [] x = StrExpiration(<<"1", "x">>) -> 1
      [] OTHER -> NUNDEF

\* C11: a call whose expiration is a number, or a string that reads as a
\* base-10 integer, waits with a timer of that many milliseconds, and a
\* call without expiration waits with no timer; a call fails with the
\* timeout error only in a step in which its timer has run its whole
\* window, its correlation entry is removed in that step and no other call
\* or entry changes; and a pending call with no timer stays pending unless
\* its reply arrives.
C11_TimeoutAfterWindow ==
    /\ [][\A k \in 1..Len(called') :
             (called'[k].op = "call" /\ ret' = NoRet) =>
                LET x == called'[k].arg
                    c == ncalls'
                IN  /\ c = ncalls + 1
                    /\ x.type = "undefined" => ~xtimer'[c].set
                    /\ C11_Window(x) # NUNDEF =>
                          xtimer'[c] = [set |-> TRUE, delay |-> C11_Window(x),
                                        waited |-> 0]]_vars
    /\ [][\A c \in CallIds :
             (calls'[c].state = "timeout" /\ calls[c].state # "timeout") =>
                /\ calls[c].state = "pending"
                /\ xtimer[c].set
                /\ xtimer[c].waited >= xtimer[c].delay
                /\ ret' = <<Threw("call", c, TimeoutError)>>
                /\ pending' = pending \ {c}
                /\ \A d \in CallIds \ {c} :
                      calls'[d] = calls[d] /\ xtimer'[d] = xtimer[d]]_vars
    /\ [][\A c \in CallIds :
             (calls[c].state = "pending" /\ ~xtimer[c].set) =>
                \/ calls'[c] = calls[c] /\ c \in pending'
                \/ called' = <<Called("reply", c)>>]_vars
    /\ [](\A c \in CallIds : calls[c].state = "timeout" => c \notin pending)

\* a call with a timeout window timed out while an earlier call without
\* expiration is still pending
C11_Witness ==
    /\ calls[1].state = "pending"
    /\ ~xtimer[1].set
    /\ calls[2].state = "timeout"
    /\ pending = {1}
    /\ ret = <<Threw("call", 2, TimeoutError)>>

\* C12: in the step in which a connection closes with a fatal error no
\* close is emitted and no reconnect timer is set; a reconnect timer is
\* only ever pending for a connection that closed non-fatally; and an
\* invocation of connect() that the caller did not make is started only by
\* the timer of such a connection, so after a fatal close the connection
\* stays closed until the caller calls connect().
C12_FatalCloseNotRetried ==
    /\ [][\A i \in Procs :
             (conn[i] = "open" /\ conn'[i] = "fatal") =>
                /\ emitted' = <<>>
                /\ ctimer' = ctimer
                /\ rtimer' = rtimer
                /\ started' = started
                /\ cpc' = cpc]_vars
    /\ [][started' # started =>
             \/ Disconnected
             \/ \E i \in Procs :
                   /\ conn[i] = "nonfatal"
                   /\ ctimer[i].set /\ ~ctimer'[i].set]_vars
    /\ [](\A i \in Procs : ctimer[i].set => conn[i] = "nonfatal")

\* a connection that connect() made from a descriptor closed fatally after
\* connect() had returned, and nothing is scheduled
C12_Witness ==
    \E i \in Procs :
        /\ conn[i] = "fatal"
        /\ handlers[i]
        /\ cpc[i] = "done"
        /\ Disconnected

\* a connection of connect() has closed non-fatally and no later invocation
\* of connect() has returned
C13_InGap ==
    \E i \in Procs :
        /\ conn[i] = "nonfatal"
        /\ handlers[i]
        /\ \A j \in Procs : j > i => cpc[j] # "done"

\* C13: a publish, call, subscribe or unsubscribe issued between a
\* non-fatal close and the return of the reconnect is rejected, or waits
\* and issues no channel operation.
C13_GapOperationsWaitOrReject ==
    C13_InGap =>
        \A k \in 1..Len(called) :
            called[k].op \in {"publish", "call", "subscribe", "unsubscribe"} =>
                \/ \E r \in Range(ret) :
                      r.op = called[k].op /\ r.of = called[k].of /\ r.threw
                \/ sent = <<>> /\ ret = NoRet

\* the documented default of options.reconnectTimeout, line 87
DefaultReconnectTimeout == 10000

\* C14: with no reconnectTimeout given, every retry timer and every
\* reconnect timer is set to the documented default.
C14_DefaultReconnectDelay ==
    options = NUNDEF =>
        \A i \in Procs :
            /\ rtimer[i].set => rtimer[i].delay = DefaultReconnectTimeout
            /\ ctimer[i].set => ctimer[i].delay = DefaultReconnectTimeout

\* C16: every open connection connect() works on, once connect() has come
\* to createChannel (line 136), has the close and error handlers of
\* connect() attached, whichever form connect() was given.
C16_HandlersForBothForms ==
    \A i \in Procs :
        (conn[i] = "open" /\ cpc[i] # "connected") => handlers[i]

\* C17: whenever the latest invocation of connect() has returned and its
\* connection is open, every event with a recorded consumer tag has its
\* queue, its binding and a consumer of that tag on the current channel.
C17_RecordedConsumersLive ==
    (started > 0 /\ cpc[started] = "done" /\ conn[started] = "open"
        /\ channel = started) =>
        \A e \in Events :
            consumers[e] # 0 =>
                /\ QueueName(group, subgroup, e) \in queues
                /\ [queue |-> QueueName(group, subgroup, e), exchange |-> group,
                    key |-> e] \in bindings
                /\ \E c \in chanCons :
                      /\ c.ch = channel
                      /\ c.tag = consumers[e]
                      /\ c.event = e

\* C18: every request call() publishes carries as reply destination the
\* reply queue declared on the channel it is published on.
C18_ReplyToOfCurrentChannel ==
    \A k \in 1..Len(called) :
        called[k].op = "call" =>
            \A o \in Range(sent) :
                o.op = "publish" => o.b[1] = ReplyQueue(o.ch)

\* C19: in the step in which call() is called, if there is no channel or
\* the channel is closed, call() throws and the correlation table, the
\* promises and the timers of the calls are unchanged; otherwise the
\* request is put on the channel and the entry of its correlation id is
\* registered in the same step; and every request on a channel is of a
\* call that has been registered.
C19_EntryOnlyForPublishedRequest ==
    /\ [][\A k \in 1..Len(called') :
             called'[k].op = "call" =>
                IF channel = 0 \/ ~ChannelOpen(channel)
                THEN /\ \E r \in Range(ret') :
                           r.op = "call" /\ r.of = called'[k].of /\ r.threw
                     /\ pending' = pending
                     /\ calls' = calls
                     /\ xtimer' = xtimer
                     /\ wire' = wire
                ELSE /\ ret' = NoRet
                     /\ pending' = pending \cup {ncalls + 1}
                     /\ ncalls + 1 \notin pending
                     /\ calls'[ncalls + 1].state = "pending"
                     /\ wire'[channel] =
                           Append(wire[channel],
                                  CallFrame(called'[k].of, callback, ncalls + 1))]_vars
    /\ [](\A ch \in Procs : \A k \in 1..Len(wire[ch]) :
             wire[ch][k].correlationId # 0 =>
                calls[wire[ch][k].correlationId].state # "none")

\* a call on the channel of a closed connection threw while the entry of an
\* earlier call is still registered
C19_Witness ==
    /\ ret = <<Threw("call", "a", ChannelClosedError)>>
    /\ pending = {1}
    /\ calls[1].state = "pending"
    /\ calls[2].state = "none"
    /\ ncalls = 1

\* getTimeout resolved with t in the step
C15_GotTimeout(t) ==
    /\ Len(ret') = 1
    /\ ret'[1].op = "getTimeout"
    /\ ~ret'[1].threw
    /\ ret'[1].val = t

\* C15: claim's promise is resolved only in a step in which getTimeout
\* has resolved with a timeout that is not positive or the signal is
\* aborted; when getTimeout resolves with zero while the promise is
\* pending, the promise is resolved in that step; when it resolves with a
\* positive timeout and the signal is not aborted, claim pauses for that
\* timeout, and getTimeout is called again only when the pause has lasted
\* it; and once claim has been called, its promise is eventually settled.
C15_PollsUntilZero ==
    /\ [][(mpromise' = "resolved" /\ mpromise # "resolved") =>
             /\ mpc = "getTimeout"
             /\ \E t \in Timeouts :
                   /\ C15_GotTimeout(t)
                   /\ t <= 0 \/ msignal = "aborted"]_vars
    /\ [][\A t \in Timeouts :
             C15_GotTimeout(t) =>
                /\ (t = 0 /\ mpromise = "pending") => mpromise' = "resolved"
                /\ (t > 0 /\ msignal # "aborted") =>
                      /\ mpromise' = mpromise
                      /\ mpc' = "pause"
                      /\ mtimer' = [set |-> TRUE, delay |-> t, waited |-> 0]]_vars
    /\ [][(mpc = "pause" /\ mpc' # "pause") =>
             /\ mpc' = "getTimeout"
             /\ mtimer.set
             /\ mtimer.delay = mtimeout
             /\ mtimer.waited >= mtimeout
             /\ mpolls' = mpolls + 1]_vars
    /\ (mpc # "idle") ~> (mpromise # "pending")

\* claim polled getTimeout as often as the backend allows, paused between
\* the polls and resolved when getTimeout gave zero, its signal not aborted
C15_Witness ==
    /\ mpolls = MaxPolls
    /\ msignal = "live"
    /\ mpromise = "resolved"
    /\ ret = <<Returned("getTimeout", Route, 0)>>
    /\ ~mlistener

\* C20: when claim's executor finishes with the signal aborted, the
\* promise is not resolved: it is rejected.
C20_NeverResolvesWhenAborted ==
    (mpc = "done" /\ ret # NoRet /\ msignal = "aborted") =>
        mpromise # "resolved"

=============================================================================
